---- MODULE Spec2Model ----
(***************************************************************************)
(* A model of the index server of the search engine:                      *)
(*   index/__init__.py   creates the application and calls load_index()   *)
(*   index/api/main.py   load_index, clean_query, calculate_scores,       *)
(*                       get_hits                                          *)
(*                                                                         *)
(* Numbers.  Python floats are modelled as exact rationals <<n, d>> with   *)
(* d > 0.  The one irrational the code computes is math.sqrt of the        *)
(* query norm; a score is therefore kept as the triple [a, b, s] that      *)
(* stands for the real number  a + b / sqrt(s)  and two scores of one     *)
(* call (same s) are compared exactly.  Rounding is not modelled.         *)
(***************************************************************************)
EXTENDS Integers, Sequences, FiniteSets, TLC

VARIABLES
    inverted_index,   \* main.py:9   term -> [idf, docs]
    pagerank,         \* main.py:10  docid -> score
    stopwords,        \* main.py:11  set of terms
    loadPc,           \* position of load_index / of the process start
    files,            \* the three files on disk that load_index reads
    skipped,          \* kinds of malformed input load_index passed over silently
    failedOn,         \* kind of malformed input load_index raised on, or "none"
    query_terms,      \* calculate_scores argument
    weight,           \* calculate_scores argument
    rankPc,           \* "call" before calculate_scores ran, "done" after
    hits,             \* value returned by calculate_scores
    raised,           \* TRUE when calculate_scores ended by an exception
    query_string,     \* clean_query argument
    terms,            \* clean_query(query_string)
    reterms,          \* clean_query(" ".join(terms))
    cleanPc,          \* "call", "cleaned", "recleaned"
    req               \* the requests in flight, one per server thread

vars == <<inverted_index, pagerank, stopwords, loadPc, files, skipped,
          failedOn, query_terms, weight, rankPc, hits, raised, query_string,
          terms, reterms, cleanPc, req>>

loadVars  == <<loadPc, files, skipped, failedOn>>
tableVars == <<inverted_index, pagerank, stopwords>>
rankVars  == <<query_terms, weight, rankPc, hits, raised>>
cleanVars == <<query_string, terms, reterms, cleanPc>>

(***************************************************************************)
(* Bounds of the model.                                                    *)
(***************************************************************************)
MaxDoc  == 2      \* document ids are 1..MaxDoc
MaxQLen == 2      \* longest query term sequence given to calculate_scores
MaxRawLen == 4    \* longest raw query text given to clean_query
MaxThreads == 2   \* server threads that handle requests at the same time
MaxTokens == 5    \* most tokens on one line of the index file
MaxIndexLines == 2  \* most lines of the index file
MaxPrLines == 1   \* most lines of the PageRank file
MaxPrFields == 2  \* most comma-separated fields on a PageRank line

Docs       == 1..MaxDoc
IndexTerms == {<<"a">>, <<"b">>}   \* terms are strings: sequences of characters
IdfValues  == {0, 1, 2}
TfValues   == {1, 2}

EmptyMap == [x \in {} |-> 0]
NoFiles  == [stopwords |-> <<>>, pagerank |-> <<>>, index |-> <<>>]

(***************************************************************************)
(* Exact arithmetic.                                                       *)
(***************************************************************************)
RECURSIVE Gcd(_, _)
Gcd(m, n) == IF n = 0 THEN m ELSE Gcd(n, m % n)
Abs(n) == IF n < 0 THEN 0 - n ELSE n

\* n / d in lowest terms with a positive denominator, for d # 0
Rat(n, d) ==
    LET g == Gcd(Abs(n), Abs(d))
    IN  IF d > 0 THEN <<n \div g, d \div g>> ELSE <<(0 - n) \div g, (0 - d) \div g>>

RatAdd(x, y) == Rat(x[1] * y[2] + y[1] * x[2], x[2] * y[2])
RatSub(x, y) == Rat(x[1] * y[2] - y[1] * x[2], x[2] * y[2])
RatMul(x, y) == Rat(x[1] * y[1], x[2] * y[2])
RatDiv(x, y) == Rat(x[1] * y[2], x[2] * y[1])
RatEq(x, y)  == x[1] * y[2] = y[1] * x[2]
Zero == <<0, 1>>
One  == <<1, 1>>

\* The sign of x * sqrt(s) + y for integers x, y and a rational s > 0.
SignSurd(x, y, s) ==
    LET xs == x * x * s[1]
        ys == y * y * s[2]
    IN  IF x >= 0 /\ y >= 0 THEN (IF x = 0 /\ y = 0 THEN 0 ELSE 1)
        ELSE IF x <= 0 /\ y <= 0 THEN -1
        ELSE IF x > 0
             THEN (IF xs > ys THEN 1 ELSE IF xs = ys THEN 0 ELSE -1)
             ELSE (IF ys > xs THEN 1 ELSE IF ys = xs THEN 0 ELSE -1)

\* The sign of p - q for two scores of one call: p.s = q.s.
ScoreCmp(p, q) ==
    LET da == RatSub(p.a, q.a)
        db == RatSub(p.b, q.b)
    IN  SignSurd(da[1] * db[2], db[1] * da[2], p.s)

(***************************************************************************)
(* load_index.  An index-file line is given as the token list that         *)
(* line.strip().split() yields, a PageRank line as the field list that     *)
(* line.strip().split(",") yields, a stopword line as a string.            *)
(***************************************************************************)
IntTokens   == {<<"0">>, <<"1">>, <<"2">>}
FloatTokens == IntTokens \cup {<<"0", ".", "5">>}

\* int(token) succeeds / float(token) succeeds
IsInt(t)   == t \in IntTokens
IsFloat(t) == t \in FloatTokens
IntOf(t)   == IF t = <<"0">> THEN 0 ELSE IF t = <<"1">> THEN 1 ELSE 2
FloatOf(t) == IF t \in IntTokens THEN <<IntOf(t), 1>> ELSE <<1, 2>>

\* line.strip(): leading and trailing blanks removed
RECURSIVE StripLeft(_)
StripLeft(str) ==
    IF str # <<>> /\ Head(str) = " " THEN StripLeft(Tail(str)) ELSE str
RECURSIVE StripRight(_)
StripRight(str) ==
    IF str # <<>> /\ str[Len(str)] = " "
    THEN StripRight(SubSeq(str, 1, Len(str) - 1)) ELSE str
Strip(str) == StripRight(StripLeft(str))

\* d[k] = v on a dict
Put(d, k, v) == [x \in DOMAIN d \cup {k} |-> IF x = k THEN v ELSE d[x]]

\* the PageRank loop after the first n lines: docid, score = ...split(",");
\* pagerank[int(docid)] = float(score).  A line that does not unpack into two
\* fields, or a field that does not convert, raises ValueError.
RECURSIVE LoadPagerank(_, _)
LoadPagerank(lines, n) ==
    IF n = 0 THEN [failed |-> FALSE, pagerank |-> EmptyMap]
    ELSE LET prev == LoadPagerank(lines, n - 1)
             fields == lines[n]
         IN  IF prev.failed THEN prev
             ELSE IF Len(fields) # 2 THEN [prev EXCEPT !.failed = TRUE]
             ELSE IF ~IsInt(fields[1]) \/ ~IsFloat(fields[2])
                  THEN [prev EXCEPT !.failed = TRUE]
             ELSE [prev EXCEPT !.pagerank =
                      Put(prev.pagerank, IntOf(fields[1]), FloatOf(fields[2]))]

\* the while loop over the document entries, from token i (1-based) on:
\* a complete group of three is converted and appended, a shorter rest
\* ends the loop without an entry
RECURSIVE ParseGroups(_, _)
ParseGroups(parts, i) ==
    IF i > Len(parts) THEN [raised |-> FALSE, docs |-> <<>>, incomplete |-> FALSE]
    ELSE IF i + 2 <= Len(parts)
         THEN IF ~IsInt(parts[i]) \/ ~IsInt(parts[i + 1]) \/ ~IsFloat(parts[i + 2])
              THEN [raised |-> TRUE, docs |-> <<>>, incomplete |-> FALSE]
              ELSE LET rest == ParseGroups(parts, i + 3)
                       doc == [docid |-> IntOf(parts[i]),
                               term_freq |-> IntOf(parts[i + 1]),
                               norm_factor |-> FloatOf(parts[i + 2])]
                   IN  [rest EXCEPT !.docs = <<doc>> \o rest.docs]
         ELSE [raised |-> FALSE, docs |-> <<>>, incomplete |-> TRUE]

\* a line with fewer than 2 tokens: no term, or no idf
ShortLine(parts) == Len(parts) < 2

\* the body of `for line in file` for one index line: "continue" when the
\* line is passed over, "raise" on a ValueError, "store" when
\* inverted_index[term] is assigned
IndexLine(parts) ==
    IF Len(parts) < 3 THEN [status |-> "continue", incomplete |-> FALSE]
    ELSE IF ~IsFloat(parts[2]) THEN [status |-> "raise", incomplete |-> FALSE]
    ELSE LET g == ParseGroups(parts, 3)
         IN  IF g.raised THEN [status |-> "raise", incomplete |-> FALSE]
             ELSE [status |-> "store", incomplete |-> g.incomplete, term |-> parts[1],
                   entry |-> [idf |-> FloatOf(parts[2]), docs |-> g.docs]]

\* the index loop after the first n lines.  `skipped` records which kinds of
\* malformed input were passed over silently.
RECURSIVE LoadIndexLines(_, _)
LoadIndexLines(lines, n) ==
    IF n = 0 THEN [failed |-> FALSE, inverted_index |-> EmptyMap, skipped |-> {}]
    ELSE LET prev == LoadIndexLines(lines, n - 1)
             r == IndexLine(lines[n])
         IN  IF prev.failed THEN prev
             ELSE IF r.status = "raise" THEN [prev EXCEPT !.failed = TRUE]
             ELSE IF r.status = "continue"
                  THEN [prev EXCEPT !.skipped =
                           @ \cup (IF ShortLine(lines[n]) THEN {"short_line"} ELSE {})]
             ELSE [prev EXCEPT
                      !.inverted_index = Put(@, r.term, r.entry),
                      !.skipped = @ \cup (IF r.incomplete THEN {"incomplete_group"} ELSE {})]

\* load_index(), run once when the index package is imported
LoadIndex ==
    /\ loadPc = "import"
    /\ stopwords' = {Strip(files.stopwords[i]) : i \in 1..Len(files.stopwords)}
    /\ \E pr \in {LoadPagerank(files.pagerank, Len(files.pagerank))} :
       \E ix \in {LoadIndexLines(files.index, Len(files.index))} :
          /\ pagerank' = pr.pagerank
          /\ IF pr.failed
             THEN /\ inverted_index' = inverted_index
                  /\ skipped' = skipped
                  /\ failedOn' = "pagerank_line"
                  /\ loadPc' = "failed"
             ELSE /\ inverted_index' = ix.inverted_index
                  /\ skipped' = ix.skipped
                  /\ failedOn' = IF ix.failed THEN "index_token" ELSE "none"
                  /\ loadPc' = IF ix.failed THEN "failed" ELSE "done"
    /\ UNCHANGED <<files, rankVars, cleanVars, req>>

(***************************************************************************)
(* clean_query.  A string is a sequence of one-character strings.          *)
(***************************************************************************)
LowerChars == {"a", "b"}
UpperChars == {"A", "B"}
DigitChars == {"0", "1", "2"}
Lowered    == [c \in UpperChars |-> IF c = "A" THEN "a" ELSE "b"]

\* re.sub(r"[^a-zA-Z0-9 ]+", "", query_string)
StripSpecial(str) ==
    SelectSeq(str, LAMBDA c : c \in LowerChars \cup UpperChars \cup DigitChars \cup {" "})

CaseFoldOmitted(str) == str

\* text.casefold()
CaseFold(str) ==
    [i \in DOMAIN str |-> IF str[i] \in UpperChars THEN Lowered[str[i]] ELSE str[i]]

\* the length of the longest prefix of str without a space
RECURSIVE WordLen(_)
WordLen(str) ==
    IF str = <<>> \/ Head(str) = " " THEN 0 ELSE 1 + WordLen(Tail(str))

\* text.split(): the maximal runs of non-space characters, in order
RECURSIVE Split(_)
Split(str) ==
    IF str = <<>> THEN <<>>
    ELSE IF Head(str) = " " THEN Split(Tail(str))
    ELSE <<SubSeq(str, 1, WordLen(str))>>
         \o Split(SubSeq(str, WordLen(str) + 1, Len(str)))

\* [term for term in terms if term not in stopwords]
RemoveStopwords(ts) == SelectSeq(ts, LAMBDA t : t \notin stopwords)

\* clean_query(query_string)
CleanQuery(str) == RemoveStopwords(Split(CaseFold(StripSpecial(str))))

\* " ".join(ts)
RECURSIVE Join(_)
Join(ts) ==
    IF ts = <<>> THEN <<>>
    ELSE IF Len(ts) = 1 THEN ts[1]
    ELSE ts[1] \o <<" ">> \o Join(Tail(ts))

(***************************************************************************)
(* calculate_scores                                                        *)
(***************************************************************************)
\* set(doc['docid'] for doc in inverted_index[term]['docs'])
DocIds(term) ==
    LET docs == inverted_index[term].docs
    IN  {docs[i].docid : i \in 1..Len(docs)}

\* candidate_docs after the first n terms of the query have been intersected
RECURSIVE CandidateDocs(_, _)
CandidateDocs(Q, n) ==
    IF n = 1 THEN DocIds(Q[1])
    ELSE CandidateDocs(Q, n - 1) \cap DocIds(Q[n])

\* query_terms.count(term)
Count(Q, term) == Cardinality({i \in 1..Len(Q) : Q[i] = term})

\* query_vector[term] before normalisation: tf_query * idf
WeightUnnormalized(Q, term) == RatMul(<<Count(Q, term), 1>>, inverted_index[term].idf)

\* query_norm_factor before math.sqrt: the loop runs over every element of
\* query_terms, so a term that occurs k times is added k times
RECURSIVE QueryNormSq(_, _)
QueryNormSq(Q, n) ==
    IF n = 0 THEN Zero
    ELSE RatAdd(QueryNormSq(Q, n - 1),
                RatMul(WeightUnnormalized(Q, Q[n]), WeightUnnormalized(Q, Q[n])))

\* the first posting of term for docid (the inner for ... break), or none
HasPosting(term, docid) ==
    \E i \in 1..Len(inverted_index[term].docs) :
        inverted_index[term].docs[i].docid = docid

DocInfo(term, docid) ==
    LET docs == inverted_index[term].docs
        i == CHOOSE j \in 1..Len(docs) :
                 /\ docs[j].docid = docid
                 /\ \A k \in 1..(j - 1) : docs[k].docid # docid
    IN  docs[i]

\* tfidf_score * sqrt(query norm squared): the dot product with the query
\* weights not yet divided by query_norm_factor, one addend per element of
\* query_terms
RECURSIVE TfidfNum(_, _, _)
TfidfNum(Q, docid, n) ==
    IF n = 0 THEN Zero
    ELSE LET term == Q[n]
             rest == TfidfNum(Q, docid, n - 1)
         IN  IF HasPosting(term, docid)
             THEN LET doc_info == DocInfo(term, docid)
                      idf == inverted_index[term].idf
                      doc_term_weight ==
                          RatDiv(RatMul(<<doc_info.term_freq, 1>>, idf), doc_info.norm_factor)
                  IN  RatAdd(rest, RatMul(WeightUnnormalized(Q, term), doc_term_weight))
             ELSE rest

\* pagerank.get(docid, 0.0)
PrScore(docid) == IF docid \in DOMAIN pagerank THEN pagerank[docid] ELSE Zero

WeightsSwapped(w, pr_score, tfidf) ==
    [a |-> RatMul(RatSub(One, w), pr_score), b |-> RatMul(w, tfidf)]

\* final_score = weight * pr_score + (1 - weight) * tfidf_score
Blend(w, pr_score, tfidf) ==
    [a |-> RatMul(w, pr_score), b |-> RatMul(RatSub(One, w), tfidf)]

FinalScore(Q, w, docid) ==
    LET f == Blend(w, PrScore(docid), TfidfNum(Q, docid, Len(Q)))
    IN  [a |-> f.a, b |-> f.b, s |-> QueryNormSq(Q, Len(Q))]

\* results after the first n candidates, visited in `order`, were appended
RECURSIVE Results(_, _, _, _)
Results(Q, w, order, n) ==
    IF n = 0 THEN <<>>
    ELSE Append(Results(Q, w, order, n - 1),
                [docid |-> order[n], score |-> FinalScore(Q, w, order[n])])

\* results.sort(key=score, reverse=True): a stable sort, so results of equal
\* score keep the order in which they were appended
InsertDesc(sorted, e) ==
    LET below == {i \in 1..Len(sorted) : ScoreCmp(sorted[i].score, e.score) < 0}
        p == IF below = {} THEN Len(sorted) + 1
             ELSE CHOOSE i \in below : \A j \in below : i <= j
    IN  SubSeq(sorted, 1, p - 1) \o <<e>> \o SubSeq(sorted, p, Len(sorted))

RECURSIVE SortDesc(_, _)
SortDesc(results, n) ==
    IF n = 0 THEN <<>> ELSE InsertDesc(SortDesc(results, n - 1), results[n])

\* the orders in which `for docid in candidate_docs` may visit a set
IterationOrders(S) ==
    {o \in [1..Cardinality(S) -> S] : \A i, j \in DOMAIN o : i # j => o[i] # o[j]}

Returned(h) == [raised |-> FALSE, hits |-> h]
Raised      == [raised |-> TRUE, hits |-> <<>>]

\* a division by zero in the scoring loop: (tf_doc * idf) / norm_factor
ZeroNormFactor(Q, cands) ==
    \E d \in cands : \E i \in 1..Len(Q) :
        HasPosting(Q[i], d) /\ DocInfo(Q[i], d).norm_factor[1] = 0

AbsentTermSkipped(Q, w, order) ==
    IF Q = <<>> THEN Returned(<<>>)
    ELSE IF Q[1] \notin DOMAIN inverted_index THEN Returned(<<>>)
    ELSE LET present == SelectSeq(Q, LAMBDA t : t \in DOMAIN inverted_index)
         IN  IF CandidateDocs(present, Len(present)) = {} THEN Returned(<<>>)
             ELSE IF Len(present) < Len(Q) THEN Raised
             ELSE IF QueryNormSq(Q, Len(Q))[1] = 0 THEN Raised
             ELSE Returned(SortDesc(Results(Q, w, order, Len(order)), Len(order)))

\* calculate_scores(query_terms, weight), the candidate set visited in `order`
CalculateScores(Q, w, order) ==
    IF Q = <<>> THEN Returned(<<>>)
    ELSE IF Q[1] \notin DOMAIN inverted_index THEN Returned(<<>>)
    ELSE IF \E i \in 2..Len(Q) : Q[i] \notin DOMAIN inverted_index THEN Returned(<<>>)
    ELSE IF CandidateDocs(Q, Len(Q)) = {} THEN Returned(<<>>)
    ELSE IF QueryNormSq(Q, Len(Q))[1] = 0 THEN Raised
    ELSE IF ZeroNormFactor(Q, CandidateDocs(Q, Len(Q))) THEN Raised
    ELSE Returned(SortDesc(Results(Q, w, order, Len(order)), Len(order)))

\* the candidate set calculate_scores iterates over ({} when it returns early)
ScoredDocs(Q) ==
    IF Q = <<>> \/ \E i \in 1..Len(Q) : Q[i] \notin DOMAIN inverted_index
    THEN {} ELSE CandidateDocs(Q, Len(Q))

(***************************************************************************)
(* get_hits, one request per server thread.  A thread may be preempted     *)
(* between the calls get_hits makes, so each call is a step of its own.    *)
(***************************************************************************)
Threads == 1..MaxThreads

IdleReq == [pc |-> "idle", query |-> <<>>, weight |-> Zero, terms |-> <<>>,
            hits |-> <<>>, raised |-> FALSE]

\* float(flask.request.args.get('w', 0.5)), 0.5 on ValueError
ParseWeight(arg) ==
    IF ~arg.given THEN <<1, 2>>
    ELSE IF IsFloat(arg.text) THEN FloatOf(arg.text) ELSE <<1, 2>>

ServedDuringImport == TRUE

\* the application serves requests once the import of the index package,
\* whose last statement is load_index(), has completed
ServerReady == loadPc = "done"

\* get_hits reads its arguments
GetHits(t, q, w) ==
    /\ ServerReady
    /\ req[t].pc = "idle"
    /\ req' = [req EXCEPT ![t] = [IdleReq EXCEPT !.pc = "clean", !.query = q,
                                                !.weight = ParseWeight(w)]]
    /\ UNCHANGED <<tableVars, loadVars, rankVars, cleanVars>>

\* query_terms = clean_query(query)
GetHitsClean(t) ==
    /\ req[t].pc = "clean"
    /\ req' = [req EXCEPT ![t].terms = CleanQuery(req[t].query), ![t].pc = "rank"]
    /\ UNCHANGED <<tableVars, loadVars, rankVars, cleanVars>>

\* hits = calculate_scores(query_terms, weight)
GetHitsRank(t) ==
    /\ req[t].pc = "rank"
    /\ \E order \in IterationOrders(ScoredDocs(req[t].terms)) :
       \E r \in {CalculateScores(req[t].terms, req[t].weight, order)} :
          req' = [req EXCEPT ![t].hits = r.hits, ![t].raised = r.raised,
                             ![t].pc = "respond"]
    /\ UNCHANGED <<tableVars, loadVars, rankVars, cleanVars>>

\* return flask.jsonify({"hits": hits}), or the error response
GetHitsRespond(t) ==
    /\ req[t].pc = "respond"
    /\ req' = [req EXCEPT ![t] = IdleReq]
    /\ UNCHANGED <<tableVars, loadVars, rankVars, cleanVars>>

(***************************************************************************)
(* SpecRank: calculate_scores applied to the tables load_index can leave   *)
(* behind, a query term sequence and a weight.                             *)
(***************************************************************************)
SortedSeq(S) ==
    CHOOSE o \in [1..Cardinality(S) -> S] : \A i, j \in DOMAIN o : i < j => o[i] < o[j]

\* a posting list over the documents D, ascending by docid
PostingList(D, tf, norms) ==
    LET o == SortedSeq(D)
    IN  [i \in DOMAIN o |->
            [docid |-> o[i], term_freq |-> tf[o[i]], norm_factor |-> norms[o[i]]]]

\* the document norm of each document of the sample corpora
DocNorms == [d \in Docs |-> <<d, 1>>]

TermEntries(norms) ==
    {[idf |-> <<i, 1>>, docs |-> PostingList(D, tf, norms)] :
        i \in IdfValues, D \in SUBSET Docs, tf \in [Docs -> TfValues]}

PagerankTables == {[d \in 1..(MaxDoc - 1) |-> <<d, 1>>], [d \in Docs |-> One]}

Queries == UNION {[1..n -> IndexTerms] : n \in 0..MaxQLen}
Weights == {Zero, <<1, 2>>, One}

RankInit ==
    /\ \E T \in SUBSET IndexTerms : inverted_index \in [T -> TermEntries(DocNorms)]
    /\ pagerank \in PagerankTables
    /\ stopwords = {}
    /\ loadPc = "done" /\ files = NoFiles /\ skipped = {} /\ failedOn = "none"
    /\ query_terms \in Queries
    /\ weight \in Weights
    /\ rankPc = "call" /\ hits = <<>> /\ raised = FALSE
    /\ query_string = <<>> /\ terms = <<>> /\ reterms = <<>> /\ cleanPc = "off"
    /\ req = <<>>

Calculate ==
    /\ rankPc = "call"
    /\ \E order \in IterationOrders(ScoredDocs(query_terms)) :
           \E r \in {CalculateScores(query_terms, weight, order)} :
               hits' = r.hits /\ raised' = r.raised
    /\ rankPc' = "done"
    /\ UNCHANGED <<tableVars, loadVars, query_terms, weight, cleanVars, req>>

RankNext == Calculate

SpecRank == RankInit /\ [][RankNext]_vars

(***************************************************************************)
(* Claims about calculate_scores, checked under SpecRank.                  *)
(***************************************************************************)
AllPresent(Q) == \A i \in 1..Len(Q) : Q[i] \in DOMAIN inverted_index

KnownDocIds == UNION {DocIds(t) : t \in DOMAIN inverted_index}

\* the AND-intersection of the posting docid sets of the terms of Q
PostingIntersection(Q) ==
    {d \in KnownDocIds : \A i \in 1..Len(Q) : d \in DocIds(Q[i])}

HitIds == {hits[i].docid : i \in 1..Len(hits)}

RatValue(r, s) == [a |-> r, b |-> Zero, s |-> s]
SurdValue(r, s) == [a |-> Zero, b |-> r, s |-> s]

\* C1: for a non-empty query whose terms are all in the index, the call
\* returns, and the docids it returns are exactly the AND-intersection of
\* the terms' posting docid sets, each once.
C1_HitsAreTheIntersection ==
    (rankPc = "done" /\ query_terms # <<>> /\ AllPresent(query_terms))
    => /\ ~raised
       /\ HitIds = PostingIntersection(query_terms)
       /\ Len(hits) = Cardinality(PostingIntersection(query_terms))

\* C1, the part the code keeps: whenever the call returns, the docids are
\* exactly the intersection, each once.
C1_OnReturn ==
    (rankPc = "done" /\ query_terms # <<>> /\ AllPresent(query_terms) /\ ~raised)
    => /\ HitIds = PostingIntersection(query_terms)
       /\ Len(hits) = Cardinality(PostingIntersection(query_terms))

\* C2: the returned sequence is sorted by non-increasing score and results
\* of equal score are in ascending docid order, whatever the iteration order
\* of the candidate set was.
C2_SortedWithTieBreak ==
    (rankPc = "done" /\ ~raised)
    => \A i, j \in 1..Len(hits) :
          i < j => /\ ScoreCmp(hits[i].score, hits[j].score) >= 0
                   /\ ScoreCmp(hits[i].score, hits[j].score) = 0
                         => hits[i].docid < hits[j].docid

\* C2, the part the code keeps: non-increasing score.
C2_SortedByScore ==
    (rankPc = "done" /\ ~raised)
    => \A i, j \in 1..Len(hits) :
          i < j => ScoreCmp(hits[i].score, hits[j].score) >= 0

\* C3: an empty query, or a query with a term absent from the index at any
\* position, returns the empty sequence and does not raise.
C3_EmptyOnMissingTerm ==
    (rankPc = "done" /\ (query_terms = <<>> \/ ~AllPresent(query_terms)))
    => (hits = <<>> /\ ~raised)

C3_Witness ==
    /\ rankPc = "done" /\ ~raised /\ hits = <<>>
    /\ Len(query_terms) = 2
    /\ query_terms[1] \in DOMAIN inverted_index
    /\ DocIds(query_terms[1]) # {}
    /\ query_terms[2] \notin DOMAIN inverted_index

RECURSIVE DistinctNormSq(_, _)
DistinctNormSq(Q, T) ==
    IF T = {} THEN Zero
    ELSE LET t == CHOOSE x \in T : TRUE
             wt == RatMul(<<Count(Q, t), 1>>, inverted_index[t].idf)
         IN  RatAdd(RatMul(wt, wt), DistinctNormSq(Q, T \ {t}))

\* the dot product in which each distinct term of T contributes once
RECURSIVE DistinctDot(_, _, _)
DistinctDot(Q, docid, T) ==
    IF T = {} THEN Zero
    ELSE LET t == CHOOSE x \in T : TRUE
             p == DocInfo(t, docid)
             wt == RatMul(<<Count(Q, t), 1>>, inverted_index[t].idf)
             dw == RatDiv(RatMul(<<p.term_freq, 1>>, inverted_index[t].idf), p.norm_factor)
         IN  RatAdd(RatMul(wt, dw), DistinctDot(Q, docid, T \ {t}))

TermSet(Q) == {Q[i] : i \in 1..Len(Q)}

\* C8: the squared norm of the query vector is the sum over the distinct
\* terms of (count * idf)^2 and each distinct term contributes once to a
\* document's dot product, also when the query repeats a term.
C8_NormOverDistinctTerms ==
    (rankPc = "done" /\ ~raised /\ hits # <<>>)
    => \A i \in 1..Len(hits) :
          LET h == hits[i]
              T == TermSet(query_terms)
          IN  /\ RatEq(h.score.s, DistinctNormSq(query_terms, T))
              /\ RatEq(h.score.b,
                       RatMul(RatSub(One, weight), DistinctDot(query_terms, h.docid, T)))

\* C9: a zero query norm with candidates left does not fail the call: every
\* candidate is returned with score weight * pagerank score.
C9_ZeroNormGuarded ==
    (/\ rankPc = "done" /\ query_terms # <<>> /\ AllPresent(query_terms)
     /\ PostingIntersection(query_terms) # {}
     /\ QueryNormSq(query_terms, Len(query_terms))[1] = 0)
    => /\ ~raised
       /\ HitIds = PostingIntersection(query_terms)
       /\ \A i \in 1..Len(hits) :
             /\ hits[i].score.b[1] = 0
             /\ RatEq(hits[i].score.a, RatMul(weight, PrScore(hits[i].docid)))

(***************************************************************************)
(* SpecClean: clean_query applied to a raw text, then to its own output    *)
(* joined by single spaces.                                                *)
(***************************************************************************)
RawChars == {"a", "B", " ", "-"}
RawTexts == UNION {[1..n -> RawChars] : n \in 0..MaxRawLen}
StopwordSets == SUBSET {<<"a">>, <<"b", "a">>, <<"B">>}

CleanInit ==
    /\ inverted_index = EmptyMap /\ pagerank = EmptyMap
    /\ stopwords \in StopwordSets
    /\ loadPc = "done" /\ files = NoFiles /\ skipped = {} /\ failedOn = "none"
    /\ query_terms = <<>> /\ weight = Zero /\ rankPc = "off" /\ hits = <<>>
    /\ raised = FALSE
    /\ query_string \in RawTexts
    /\ terms = <<>> /\ reterms = <<>> /\ cleanPc = "call"
    /\ req = <<>>

Clean ==
    /\ cleanPc = "call"
    /\ terms' = CleanQuery(query_string)
    /\ cleanPc' = "cleaned"
    /\ UNCHANGED <<tableVars, loadVars, rankVars, query_string, reterms, req>>

Reclean ==
    /\ cleanPc = "cleaned"
    /\ reterms' = CleanQuery(Join(terms))
    /\ cleanPc' = "recleaned"
    /\ UNCHANGED <<tableVars, loadVars, rankVars, query_string, terms, req>>

CleanNext == Clean \/ Reclean

SpecClean == CleanInit /\ [][CleanNext]_vars

\* the characters of str that clean_query keeps, upper case lowered
RECURSIVE KeptChars(_)
KeptChars(str) ==
    IF str = <<>> THEN <<>>
    ELSE LET c == Head(str)
         IN  (IF c \in UpperChars THEN <<Lowered[c]>>
              ELSE IF c \in LowerChars \cup DigitChars THEN <<c>>
              ELSE <<>>) \o KeptChars(Tail(str))

RECURSIVE Concat(_)
Concat(ts) == IF ts = <<>> THEN <<>> ELSE Head(ts) \o Concat(Tail(ts))

\* C5: a later call of clean_query on the same text gives the sequence the
\* first call gave; normalising that output, joined by single spaces, gives
\* it back (same terms, same order, duplicates kept); the output holds no
\* stopword, no empty term and only lower-case letters and digits.
C5_CleanIdempotent ==
    (cleanPc = "recleaned")
    => /\ CleanQuery(query_string) = terms
       /\ reterms = terms
       /\ stopwords = {} => Concat(terms) = KeptChars(query_string)
       /\ \A i \in 1..Len(terms) :
             /\ terms[i] \notin stopwords
             /\ terms[i] # <<>>
             /\ \A k \in 1..Len(terms[i]) : terms[i][k] \in LowerChars \cup DigitChars

C5_Witness ==
    /\ cleanPc = "recleaned"
    /\ query_string = <<"B", " ", "-", "B">>
    /\ stopwords = {<<"a">>}
    /\ terms = <<<<"b">>, <<"b">>>>
    /\ reterms = terms

(***************************************************************************)
(* SpecLoad: load_index applied to the files on disk.                      *)
(***************************************************************************)
Tokens == {<<"a">>, <<"1">>, <<"0", ".", "5">>}
IndexFileLines == UNION {[1..n -> Tokens] : n \in 0..MaxTokens}
IndexFiles == UNION {[1..n -> IndexFileLines] : n \in 0..MaxIndexLines}
PrFields == {<<"1">>, <<"0", ".", "5">>}
PrFileLines == UNION {[1..n -> PrFields] : n \in 1..MaxPrFields}
PrFiles == UNION {[1..n -> PrFileLines] : n \in 0..MaxPrLines}

LoadInit ==
    /\ inverted_index = EmptyMap /\ pagerank = EmptyMap /\ stopwords = {}
    /\ loadPc = "import" /\ skipped = {} /\ failedOn = "none"
    /\ \E ix \in IndexFiles : \E pr \in PrFiles :
          files = [stopwords |-> <<<<"a">>, <<" ", "b", " ">>>>, pagerank |-> pr, index |-> ix]
    /\ query_terms = <<>> /\ weight = Zero /\ rankPc = "off" /\ hits = <<>>
    /\ raised = FALSE
    /\ query_string = <<>> /\ terms = <<>> /\ reterms = <<>> /\ cleanPc = "off"
    /\ req = <<>>

LoadNext == LoadIndex

SpecLoad == LoadInit /\ [][LoadNext]_vars

\* C6: load_index never passes over one malformed input silently and fails
\* the load on another: its reaction to malformed input is uniform.
C6_UniformPolicy == ~(skipped # {} /\ failedOn # "none")

\* the format of the index file: a term, an idf, then k >= 0 complete groups
\* docid tf norm
WellFormedLine(parts) ==
    /\ Len(parts) >= 2
    /\ (Len(parts) - 2) % 3 = 0
    /\ IsFloat(parts[2])
    /\ \A i \in 3..Len(parts) :
          IF (i - 3) % 3 = 2 THEN IsFloat(parts[i]) ELSE IsInt(parts[i])

PostingsOf(parts) ==
    [g \in 1..((Len(parts) - 2) \div 3) |->
        [docid |-> IntOf(parts[3 * g]), term_freq |-> IntOf(parts[3 * g + 1]),
         norm_factor |-> FloatOf(parts[3 * g + 2])]]

\* line n is the last line of the file for its term
LastForTerm(lines, n) ==
    \A m \in (n + 1)..Len(lines) : lines[m] = <<>> \/ lines[m][1] # lines[n][1]

\* C10: after a completed load every well-formed line of k >= 0 groups has
\* left, under its term, its idf and exactly its k postings in file order.
C10_WellFormedLinesLoaded ==
    (loadPc = "done")
    => \A n \in 1..Len(files.index) :
          LET parts == files.index[n]
          IN  (WellFormedLine(parts) /\ LastForTerm(files.index, n))
              => /\ parts[1] \in DOMAIN inverted_index
                 /\ inverted_index[parts[1]] =
                       [idf |-> FloatOf(parts[2]), docs |-> PostingsOf(parts)]

\* C10, the part the code keeps: a well-formed line with k >= 1 groups.
C10_LinesWithPostingsLoaded ==
    (loadPc = "done")
    => \A n \in 1..Len(files.index) :
          LET parts == files.index[n]
          IN  (WellFormedLine(parts) /\ Len(parts) > 2 /\ LastForTerm(files.index, n))
              => /\ parts[1] \in DOMAIN inverted_index
                 /\ inverted_index[parts[1]] =
                       [idf |-> FloatOf(parts[2]), docs |-> PostingsOf(parts)]

(***************************************************************************)
(* Spec: the process.  The package is imported, load_index() reads the     *)
(* files, then the threads serve requests.                                 *)
(***************************************************************************)
ServerStopwordFiles == {<<>>, <<<<" ", "b">>>>}
ServerPagerankFiles == {<<>>, <<<<<<"1">>, <<"0", ".", "5">>>>>>}
ServerIndexFiles ==
    { <<<<<<"a">>, <<"1">>, <<"1">>, <<"1">>, <<"1">>, <<"2">>, <<"1">>, <<"2">>>>,
        <<<<"b">>, <<"0", ".", "5">>, <<"1">>, <<"2">>, <<"1">>>>>>,
      <<<<<<"a">>, <<"0">>, <<"1">>, <<"1">>, <<"1">>>>>>,
      <<<<<<"a">>, <<"a">>, <<"1">>>>>> }
ServerQueries == {<<>>, <<"A">>, <<"a", " ", "B", "-">>, <<"b">>}
WeightArgs == {[given |-> FALSE, text |-> <<>>], [given |-> TRUE, text |-> <<"1">>],
               [given |-> TRUE, text |-> <<"0">>], [given |-> TRUE, text |-> <<"a">>]}

Init ==
    /\ inverted_index = EmptyMap /\ pagerank = EmptyMap /\ stopwords = {}
    /\ loadPc = "import" /\ skipped = {} /\ failedOn = "none"
    /\ \E st \in ServerStopwordFiles : \E pr \in ServerPagerankFiles :
       \E ix \in ServerIndexFiles :
          files = [stopwords |-> st, pagerank |-> pr, index |-> ix]
    /\ query_terms = <<>> /\ weight = Zero /\ rankPc = "off" /\ hits = <<>>
    /\ raised = FALSE
    /\ query_string = <<>> /\ terms = <<>> /\ reterms = <<>> /\ cleanPc = "off"
    /\ req = [t \in Threads |-> IdleReq]

Next ==
    \/ LoadIndex
    \/ \E t \in Threads : \E q \in ServerQueries : \E w \in WeightArgs : GetHits(t, q, w)
    \/ \E t \in Threads : GetHitsClean(t)
    \/ \E t \in Threads : GetHitsRank(t)
    \/ \E t \in Threads : GetHitsRespond(t)

Spec == Init /\ [][Next]_vars

\* what a request with this query text and weight returns when it runs alone
\* on the tables as they are
AloneOutcomes(q, w) ==
    {CalculateScores(CleanQuery(q), w, order) :
        order \in IterationOrders(ScoredDocs(CleanQuery(q)))}

\* C7: once load_index has completed the three tables keep the value the
\* load gave them, no request is in progress before the load has completed,
\* and a request that has computed its response holds what it would have
\* computed running alone.
C7_TablesReadOnly ==
    /\ loadPc = "done" =>
          /\ stopwords = {Strip(files.stopwords[i]) : i \in 1..Len(files.stopwords)}
          /\ pagerank = LoadPagerank(files.pagerank, Len(files.pagerank)).pagerank
          /\ inverted_index = LoadIndexLines(files.index, Len(files.index)).inverted_index
    /\ \A t \in Threads :
          /\ req[t].pc # "idle" => loadPc = "done"
          /\ req[t].pc = "respond" =>
                [raised |-> req[t].raised, hits |-> req[t].hits]
                    \in AloneOutcomes(req[t].query, req[t].weight)

C7_Witness ==
    /\ loadPc = "done"
    /\ req[1].pc = "respond" /\ Len(req[1].hits) = 2
    /\ req[2].pc = "rank" /\ req[2].terms = <<<<"a">>>> /\ req[2].query # req[1].query

====
